---- MODULE Spec2Model ----
(***************************************************************************)
(* A model of snmp_utilities.py: the SnmpQuery helpers (cast,              *)
(* construct_credentials, construct_object_types, fetch, get,              *)
(* get_brief_name, get_next) and the SnmpUtility facade                    *)
(* (get_snmp_interfaces, get_snmp_name).                                   *)
(*                                                                         *)
(* Python strings are sequences of one-character strings.  Python values   *)
(* are tagged records of one shape.  A call's outcome is either            *)
(* Return(value) or Raise(exception name).  The pysnmp engine is the       *)
(* environment: what it answers is chosen nondeterministically.            *)
(***************************************************************************)
EXTENDS Integers, Sequences, FiniteSets, TLC

VARIABLES call, outcome, engines, frames

vars == <<call, outcome, engines, frames>>

(***************************************************************************)
(* Outcomes of a Python call.                                              *)
(***************************************************************************)
Return(v) == [kind |-> "return", val |-> v]

Raise(e) == [kind |-> "raise", exc |-> e]

Returned(o) == o.kind = "return"

Raised(o, e) == o.kind = "raise" /\ o.exc = e

\* the element of a singleton: Only({e(x) : x \in {call}}) is e of the outcome
\* of the call, which is made once
Only(S) == CHOOSE r \in S : TRUE

NoCall == [op |-> "none"]

NoOutcome == [kind |-> "none"]

(***************************************************************************)
(* Python values.                                                          *)
(***************************************************************************)
PyInt(n) == [t |-> "int", n |-> n, e |-> 0, s |-> <<>>]

\* a finite float, as the decimal m * 10^e with m not a multiple of 10
PyFloat(m, e) == [t |-> "float", n |-> m, e |-> e, s |-> <<>>]

PyInf == [t |-> "float", n |-> 0, e |-> 0, s |-> <<"i", "n", "f">>]

PyNaN == [t |-> "float", n |-> 0, e |-> 0, s |-> <<"n", "a", "n">>]

PyStr(s) == [t |-> "str", n |-> 0, e |-> 0, s |-> s]

PyNone == [t |-> "NoneType", n |-> 0, e |-> 0, s |-> <<>>]

PyBool(b) == [t |-> "bool", n |-> IF b THEN 1 ELSE 0, e |-> 0, s |-> <<>>]

\* an object of a user-defined or library type: what each of its __int__,
\* __float__ and __str__ does ("ok", or the exception it raises)
PyObj(i, f, st) == [t |-> "obj", n |-> 0, e |-> 0, s |-> <<i, f, st>>]

Digits == {"0", "1", "2", "3", "4", "5", "6", "7", "8", "9"}

DigitVal(c) ==
    CASE c = "0" -> 0 [] c = "1" -> 1 [] c = "2" -> 2 [] c = "3" -> 3
      [] c = "4" -> 4 [] c = "5" -> 5 [] c = "6" -> 6 [] c = "7" -> 7
      [] c = "8" -> 8 [] c = "9" -> 9

DigitChar(d) ==
    CASE d = 0 -> "0" [] d = 1 -> "1" [] d = 2 -> "2" [] d = 3 -> "3"
      [] d = 4 -> "4" [] d = 5 -> "5" [] d = 6 -> "6" [] d = 7 -> "7"
      [] d = 8 -> "8" [] d = 9 -> "9"

IsDigits(s) == Len(s) > 0 /\ \A i \in 1..Len(s) : s[i] \in Digits

RECURSIVE DigitsVal(_)
DigitsVal(s) ==
    IF s = <<>> THEN 0
    ELSE DigitsVal(SubSeq(s, 1, Len(s) - 1)) * 10 + DigitVal(s[Len(s)])

RECURSIVE NatToStr(_)
NatToStr(n) ==
    IF n < 10 THEN <<DigitChar(n)>>
    ELSE NatToStr(n \div 10) \o <<DigitChar(n % 10)>>

IntToStr(n) == IF n < 0 THEN <<"-">> \o NatToStr(0 - n) ELSE NatToStr(n)

RECURSIVE Pow10(_)
Pow10(k) == IF k <= 0 THEN 1 ELSE 10 * Pow10(k - 1)

\* the first position of character c in s, 0 when there is none
RECURSIVE IndexFrom(_, _, _)
IndexFrom(s, c, i) ==
    IF i > Len(s) THEN 0
    ELSE IF s[i] = c THEN i
    ELSE IndexFrom(s, c, i + 1)

IndexOf(s, c) == IndexFrom(s, c, 1)

HasSign(s) == s # <<>> /\ s[1] \in {"-", "+"}

Unsigned(s) == IF HasSign(s) THEN Tail(s) ELSE s

SignOf(s) == IF s # <<>> /\ s[1] = "-" THEN 0 - 1 ELSE 1

\* int(str): an optional sign and one or more decimal digits
IsIntLiteral(s) == IsDigits(Unsigned(s))

IntLiteralVal(s) == SignOf(s) * DigitsVal(Unsigned(s))

\* float(str): [sign] digits [. digits] [e [sign] digits], with at least one
\* digit in the mantissa
MantissaOf(s) ==
    LET u == Unsigned(s)
        k == IndexOf(u, "e")
    IN  IF k = 0 THEN u ELSE SubSeq(u, 1, k - 1)

ExponentOf(s) ==
    LET u == Unsigned(s)
        k == IndexOf(u, "e")
    IN  SubSeq(u, k + 1, Len(u))

HasExponent(s) == IndexOf(Unsigned(s), "e") # 0

IntPartOf(m) ==
    LET d == IndexOf(m, ".") IN IF d = 0 THEN m ELSE SubSeq(m, 1, d - 1)

FracPartOf(m) ==
    LET d == IndexOf(m, ".") IN IF d = 0 THEN <<>> ELSE SubSeq(m, d + 1, Len(m))

IsFloatLiteral(s) ==
    LET m == MantissaOf(s)
        ds == IntPartOf(m) \o FracPartOf(m)
    IN  /\ IsDigits(ds)
        /\ HasExponent(s) => IsIntLiteral(ExponentOf(s))

\* strip the trailing zeros of a decimal mantissa
RECURSIVE Normal(_, _)
Normal(m, e) ==
    IF m = 0 THEN PyFloat(0, 0)
    ELSE IF m % 10 = 0 THEN Normal(m \div 10, e + 1)
    ELSE PyFloat(m, e)

FloatLiteralVal(s) ==
    LET m == MantissaOf(s)
        ds == IntPartOf(m) \o FracPartOf(m)
        x == IF HasExponent(s) THEN IntLiteralVal(ExponentOf(s)) ELSE 0
    IN  Normal(SignOf(s) * DigitsVal(ds), x - Len(FracPartOf(m)))

\* truncation toward zero of m * 10^e
Trunc(m, e) ==
    IF e >= 0 THEN m * Pow10(e)
    ELSE IF m >= 0 THEN m \div Pow10(0 - e)
    ELSE 0 - ((0 - m) \div Pow10(0 - e))

ObjInt == PyInt(7)

ObjFloat == PyFloat(25, 0 - 1)

ObjStr == <<"o", "b", "j">>

\* int(value)
py_int(v) ==
    CASE v.t = "int" -> Return(v)
      [] v.t = "bool" -> Return(PyInt(v.n))
      [] v.t = "float" ->
            IF v = PyInf THEN Raise("OverflowError")
            ELSE IF v = PyNaN THEN Raise("ValueError")
            ELSE Return(PyInt(Trunc(v.n, v.e)))
      [] v.t = "str" ->
            IF IsIntLiteral(v.s) THEN Return(PyInt(IntLiteralVal(v.s)))
            ELSE Raise("ValueError")
      [] v.t = "NoneType" -> Raise("TypeError")
      [] v.t = "obj" ->
            IF v.s[1] = "ok" THEN Return(ObjInt) ELSE Raise(v.s[1])

\* float(value)
py_float(v) ==
    CASE v.t = "int" -> Return(Normal(v.n, 0))
      [] v.t = "bool" -> Return(Normal(v.n, 0))
      [] v.t = "float" -> Return(v)
      [] v.t = "str" ->
            IF IsFloatLiteral(v.s) THEN Return(FloatLiteralVal(v.s))
            ELSE Raise("ValueError")
      [] v.t = "NoneType" -> Raise("TypeError")
      [] v.t = "obj" ->
            IF v.s[2] = "ok" THEN Return(ObjFloat) ELSE Raise(v.s[2])

\* str(value)
py_str(v) ==
    CASE v.t = "int" -> Return(PyStr(IntToStr(v.n)))
      [] v.t = "bool" ->
            Return(PyStr(IF v.n = 1 THEN <<"T", "r", "u", "e">>
                         ELSE <<"F", "a", "l", "s", "e">>))
      [] v.t = "float" /\ v.s # <<>> -> Return(PyStr(v.s))
      [] v.t = "str" -> Return(v)
      [] v.t = "NoneType" -> Return(PyStr(<<"N", "o", "n", "e">>))
      [] v.t = "obj" ->
            IF v.s[3] = "ok" THEN Return(PyStr(ObjStr)) ELSE Raise(v.s[3])

\* the except clauses of cast
Caught(exc) == exc \in {"ValueError", "TypeError"}

\* SnmpQuery.cast
cast(value) ==
    LET i == py_int(value)
        f == py_float(value)
        s == py_str(value)
    IN  IF Returned(i) THEN i
        ELSE IF ~Caught(i.exc) THEN i
        ELSE IF Returned(f) THEN f
        ELSE IF ~Caught(f.exc) THEN f
        ELSE IF Returned(s) THEN s
        ELSE IF ~Caught(s.exc) THEN s
        ELSE Return(value)

(***************************************************************************)
(* The inputs of cast.                                                     *)
(***************************************************************************)
MaxCastLen == 4

CastAlphabet == {"1", "2", "3", "4", ".", "-", "e", "a", "b", "c"}

RECURSIVE StringsUpTo(_, _)
StringsUpTo(alphabet, n) ==
    IF n = 0 THEN {<<>>}
    ELSE LET shorter == StringsUpTo(alphabet, n - 1)
         IN  shorter \cup {Append(s, c) : s \in shorter, c \in alphabet}

Exceptions == {"ValueError", "TypeError", "OverflowError", "RuntimeError"}

DunderOutcomes == {"ok"} \cup Exceptions

MaxCastInt == 2

CastInputs ==
    {PyStr(s) : s \in StringsUpTo(CastAlphabet, MaxCastLen)}
        \cup {PyInt(n) : n \in (0 - MaxCastInt)..MaxCastInt}
        \cup {Normal(m, 0 - 1) : m \in (0 - 10 * MaxCastInt)..(10 * MaxCastInt)}
        \cup {PyInf, PyNaN, PyNone, PyBool(TRUE), PyBool(FALSE)}
        \cup {PyObj(i, f, st) : i \in DunderOutcomes, f \in DunderOutcomes,
                                st \in DunderOutcomes}

\* the devices, one SnmpUtility instance each
Hosts == {<<"A">>, <<"B">>}

\* the objects the def statements of get and get_next create, once, as the
\* default values of their engine and context parameters
DefaultArg(fn, parameter) == <<fn, parameter>>

DefaultObjects ==
    {DefaultArg(fn, parameter) : fn \in {"get", "get_next"},
                                 parameter \in {"engine", "context"}}

IdleFrame == [pc |-> "idle", fn |-> "", engine |-> <<>>, context |-> <<>>, left |-> 0]

\* after import: the default objects are fresh and no call is in progress
InitQuiet ==
    /\ engines = [o \in DefaultObjects |-> [requests |-> 0, usedBy |-> {}]]
    /\ frames = [h \in Hosts |-> IdleFrame]

InitCast ==
    /\ call \in {[op |-> "cast", value |-> v] : v \in CastInputs}
    /\ outcome = NoOutcome
    /\ InitQuiet

Cast ==
    /\ call.op = "cast"
    /\ outcome = NoOutcome
    /\ outcome' = cast(call.value)
    /\ UNCHANGED <<call, engines, frames>>

NextCast == Cast

SpecCast == InitCast /\ [][NextCast]_vars

CastDone == call.op = "cast" /\ outcome # NoOutcome

\* C1: for every input value, cast returns the integer interpretation when
\* int(value) succeeds, otherwise the float interpretation when float(value)
\* succeeds, otherwise the text when str(value) succeeds, and the value itself
\* only when all three fail; "42" gives 42, "3.14" gives 3.14, "abc" gives "abc".
CastFirstInterpretation ==
    CastDone =>
        LET v == call.value
        IN  /\ outcome =
                  IF Returned(py_int(v)) THEN py_int(v)
                  ELSE IF Returned(py_float(v)) THEN py_float(v)
                  ELSE IF Returned(py_str(v)) THEN py_str(v)
                  ELSE Return(v)
            /\ v = PyStr(<<"4", "2">>) => outcome = Return(PyInt(42))
            /\ v = PyStr(<<"3", ".", "1", "4">>)
                  => outcome = Return(PyFloat(314, 0 - 2))
            /\ v = PyStr(<<"a", "b", "c">>)
                  => outcome = Return(PyStr(<<"a", "b", "c">>))

\* what C1 says of the calls that do return
CastFirstInterpretationOnReturn ==
    (CastDone /\ Returned(outcome)) => CastFirstInterpretation

\* C2: cast is total: whatever failure an attempt produces, it is absorbed,
\* so every call of cast returns a value and no exception escapes.
CastNeverRaises == CastDone => Returned(outcome)

(***************************************************************************)
(* construct_credentials                                                   *)
(***************************************************************************)
\* hlapi.CommunityData(credentials)
CommunityData(credentials) ==
    [cls |-> "CommunityData", communityName |-> credentials]

\* "v3 == False" in place of "v3 is False": 0 equals False
EqualsFalse(v3) == v3.t \in {"bool", "int"} /\ v3.n = 0

\* v3 is False: the identity of the False singleton
IsFalse(v3) == v3 = PyBool(FALSE)

\* SnmpQuery.construct_credentials
construct_credentials(v3, credentials) ==
    IF IsFalse(v3) THEN Return(CommunityData(credentials))
    ELSE Raise("NotImplementedError")

MaxCredLen == 3

CredAlphabet == {"p", "u", "b"}

V3Flags ==
    {PyBool(FALSE), PyBool(TRUE), PyInt(0), PyInt(1), PyNone, PyStr(<<>>),
     PyStr(<<"v", "3">>)}

InitCred ==
    /\ call \in {[op |-> "construct_credentials", v3 |-> v, credentials |-> c] :
                    v \in V3Flags, c \in StringsUpTo(CredAlphabet, MaxCredLen)}
    /\ outcome = NoOutcome
    /\ InitQuiet

ConstructCredentials ==
    /\ call.op = "construct_credentials"
    /\ outcome = NoOutcome
    /\ outcome' = construct_credentials(call.v3, call.credentials)
    /\ UNCHANGED <<call, engines, frames>>

NextCred == ConstructCredentials

SpecCred == InitCred /\ [][NextCred]_vars

CredDone == call.op = "construct_credentials" /\ outcome # NoOutcome

\* C10: construct_credentials raises NotImplementedError, returning no
\* credentials object, for every version flag other than the False singleton;
\* only for False does it return CommunityData built from the given string.
CredentialsOnlyForCommunity ==
    CredDone =>
        /\ call.v3 # PyBool(FALSE) => outcome = Raise("NotImplementedError")
        /\ call.v3 = PyBool(FALSE)
              => /\ Returned(outcome)
                 /\ outcome.val.cls = "CommunityData"
                 /\ outcome.val.communityName = call.credentials

\* a falsy flag that is not False (the integer 0) has been refused
CredentialsRefusedWitness ==
    /\ CredDone
    /\ call.v3 = PyInt(0)
    /\ call.credentials = <<"p", "u", "b">>
    /\ outcome = Raise("NotImplementedError")

(***************************************************************************)
(* construct_object_types                                                  *)
(***************************************************************************)
\* the entries of list_of_oids: a str, a dict (its items in order, each
\* <<key, value>>), or a value of any other type
OidStr(s) == [t |-> "str", s |-> s, items |-> <<>>]

OidDict(items) == [t |-> "dict", s |-> <<>>, items |-> items]

OidOther == [t |-> "other", s |-> <<>>, items |-> <<>>]

\* hlapi.ObjectType(hlapi.ObjectIdentity(*args)), with the MIB source added
\* by addMibSource ("" when none is)
ObjectType(args, mibSource) == [args |-> args, mibSource |-> mibSource]

\* value.split(c)
RECURSIVE Split(_, _)
Split(s, c) ==
    LET k == IndexOf(s, c)
    IN  IF k = 0 THEN <<s>>
        ELSE <<SubSeq(s, 1, k - 1)>> \o Split(SubSeq(s, k + 1, Len(s)), c)

\* "len(split_value) < 2" in place of "len(split_value) != 2"
InvalidSplitLoose(split_value) == Len(split_value) < 2

\* len(split_value) != 2
InvalidSplit(split_value) == Len(split_value) # 2

\* object_types.insert(0, object_type) in place of append
ListPrepend(object_types, object_type) == <<object_type>> \o object_types

\* object_types.append(object_type)
ListAppend(object_types, object_type) == Append(object_types, object_type)

\* for key, value in oid.items(): ...
RECURSIVE ItemsLoop(_, _)
ItemsLoop(items, object_types) ==
    IF items = <<>> THEN Return(object_types)
    ELSE LET key == Head(items)[1]
             value == Head(items)[2]
             split_value == Split(value, ".")
         IN  IF IndexOf(value, ".") # 0
             THEN IF InvalidSplit(split_value) THEN Raise("ValueError")
                  ELSE ItemsLoop(Tail(items),
                         ListAppend(object_types,
                           ObjectType(<<key, split_value[1], split_value[2]>>,
                                      "./mibs")))
             ELSE ItemsLoop(Tail(items),
                    ListAppend(object_types,
                               ObjectType(<<key, value>>, "./mibs")))

\* for oid in list_of_oids: ...
RECURSIVE OidsLoop(_, _)
OidsLoop(list_of_oids, object_types) ==
    IF list_of_oids = <<>> THEN Return(object_types)
    ELSE LET oid == Head(list_of_oids)
             afterStr == IF oid.t = "str"
                         THEN ListAppend(object_types, ObjectType(<<oid.s>>, ""))
                         ELSE object_types
         IN  IF oid.t = "dict"
             THEN Only({IF Returned(inner) THEN OidsLoop(Tail(list_of_oids), inner.val)
                        ELSE inner : inner \in {ItemsLoop(oid.items, afterStr)}})
             ELSE OidsLoop(Tail(list_of_oids), afterStr)

\* SnmpQuery.construct_object_types
construct_object_types(list_of_oids) == OidsLoop(list_of_oids, <<>>)

MaxFieldLen == 4

MaxOids == 2

FieldAlphabet == {"f", "."}

Fields == StringsUpTo(FieldAlphabet, MaxFieldLen)

MibM == <<"M">>

MibN == <<"N">>

OidPool ==
    {OidStr(<<"1", ".", "3">>), OidStr(<<"1", ".", "3", ".", "6">>), OidOther}
        \cup {OidDict(<<<<MibM, f>>>>) : f \in Fields}
        \cup {OidDict(<<<<MibM, f>>, <<MibN, g>>>>) :
                 f \in {<<"f">>, <<"f", ".", "f">>},
                 g \in {<<"f">>, <<"f", ".", "f">>}}

RECURSIVE ListsUpTo(_, _)
ListsUpTo(pool, n) ==
    IF n = 0 THEN {<<>>}
    ELSE LET shorter == ListsUpTo(pool, n - 1)
         IN  shorter \cup {Append(l, x) : l \in shorter, x \in pool}

InitOids ==
    /\ call \in {[op |-> "construct_object_types", list_of_oids |-> l] :
                    l \in ListsUpTo(OidPool, MaxOids)}
    /\ outcome = NoOutcome
    /\ InitQuiet

ConstructObjectTypes ==
    /\ call.op = "construct_object_types"
    /\ outcome = NoOutcome
    /\ outcome' = construct_object_types(call.list_of_oids)
    /\ UNCHANGED <<call, engines, frames>>

NextOids == ConstructObjectTypes

SpecOids == InitOids /\ [][NextOids]_vars

OidsDone == call.op = "construct_object_types" /\ outcome # NoOutcome

Dots(field) == Cardinality({i \in 1..Len(field) : field[i] = "."})

\* the (namespace, field) pairs of the symbolic entries of a list
PairsOf(list_of_oids) ==
    UNION {{list_of_oids[i].items[k] : k \in 1..Len(list_of_oids[i].items)} :
             i \in 1..Len(list_of_oids)}

\* descriptor d is the one the claim describes for the pair (namespace, field)
DescribesPair(d, namespace, field) ==
    /\ d.mibSource = "./mibs"
    /\ IF Dots(field) = 0 THEN d.args = <<namespace, field>>
       ELSE /\ Len(d.args) = 3
            /\ d.args[1] = namespace
            /\ d.args[2] \o <<".">> \o d.args[3] = field

\* C3: a pair whose field has exactly one '.' gives the descriptor
\* (namespace, symbol, index) with symbol + "." + index = field; a field with
\* no '.' gives the unindexed descriptor (namespace, field); a field with two
\* or more '.' makes the call raise ValueError and return no list.
SymbolicSpecsResolved ==
    OidsDone =>
        LET pairs == PairsOf(call.list_of_oids)
        IN  /\ (\E p \in pairs : Dots(p[2]) >= 2) <=> outcome = Raise("ValueError")
            /\ outcome.kind \in {"return", "raise"}
            /\ Returned(outcome) =>
                  /\ \A p \in pairs :
                        \E i \in 1..Len(outcome.val) :
                            DescribesPair(outcome.val[i], p[1], p[2])
                  /\ \A i \in 1..Len(outcome.val) :
                        outcome.val[i].mibSource = "./mibs" =>
                            \E p \in pairs :
                                DescribesPair(outcome.val[i], p[1], p[2])

\* an indexed field has been split, and a field with two dots refused
IndexedSplitWitness ==
    /\ OidsDone
    /\ call.list_of_oids = <<OidDict(<<<<MibM, <<"f", "f", ".", "f">>>>>>)>>
    /\ outcome = Return(<<ObjectType(<<MibM, <<"f", "f">>, <<"f">>>>, "./mibs")>>)

IsIdentifierSpec(oid) == oid.t = "str" \/ (oid.t = "dict" /\ Len(oid.items) = 1)

\* descriptor d is resolved from the list entry oid
ResolvedFrom(d, oid) ==
    \/ oid.t = "str" /\ d = ObjectType(<<oid.s>>, "")
    \/ /\ oid.t = "dict"
       /\ \E k \in 1..Len(oid.items) :
              DescribesPair(d, oid.items[k][1], oid.items[k][2])

SameLengthSameOrder ==
    /\ Len(outcome.val) = Len(call.list_of_oids)
    /\ \A i \in 1..Len(call.list_of_oids) :
          ResolvedFrom(outcome.val[i], call.list_of_oids[i])

SetMin(S) == CHOOSE x \in S : \A y \in S : x <= y

SetMax(S) == CHOOSE x \in S : \A y \in S : x >= y

\* (?<=::) holds at position p: the two characters before p are "::"
LookBehind(s, p) == p >= 3 /\ s[p - 2] = ":" /\ s[p - 1] = ":"

\* the positions q >= p where (?=\.) holds
DotsFrom(s, p) == {q \in p..Len(s) : s[q] = "."}

\* (.*) in place of (.*?): the match runs to the last '.'
GreedyEnd(s, p) == SetMax(DotsFrom(s, p))

\* (.*?) is lazy: the match ends before the first '.' at or after p
LazyEnd(s, p) == SetMin(DotsFrom(s, p))

NoMatch == [found |-> FALSE, group |-> <<>>]

\* re.search('(?<=::)(.*?)(?=\.)', full_name): the leftmost position where
\* the pattern matches
re_search(full_name) ==
    LET starts == {p \in 1..(Len(full_name) + 1) :
                     LookBehind(full_name, p) /\ DotsFrom(full_name, p) # {}}
        p == SetMin(starts)
    IN  IF starts = {} THEN NoMatch
        ELSE [found |-> TRUE,
              group |-> SubSeq(full_name, p, LazyEnd(full_name, p) - 1)]

\* SnmpQuery.get_brief_name: brief_name is None when nothing matches, and
\* None has no group(); a match's group() is always a str, so the ValueError
\* is never raised
get_brief_name(full_name) ==
    LET brief_name == re_search(full_name)
    IN  IF ~brief_name.found THEN Raise("AttributeError")
        ELSE Return(brief_name.group)

MaxNameLen == 6

NameAlphabet == {":", ".", "a", "b"}

InitName ==
    /\ call \in {[op |-> "get_brief_name", full_name |-> n] :
                    n \in StringsUpTo(NameAlphabet, MaxNameLen)}
    /\ outcome = NoOutcome
    /\ InitQuiet

GetBriefName ==
    /\ call.op = "get_brief_name"
    /\ outcome = NoOutcome
    /\ outcome' = get_brief_name(call.full_name)
    /\ UNCHANGED <<call, engines, frames>>

NextName == GetBriefName

SpecName == InitName /\ [][NextName]_vars

NameDone == call.op = "get_brief_name" /\ outcome # NoOutcome

\* the position of the first "::" of s, 0 when there is none
RECURSIVE SepFrom(_, _)
SepFrom(s, i) ==
    IF i + 1 > Len(s) THEN 0
    ELSE IF s[i] = ":" /\ s[i + 1] = ":" THEN i
    ELSE SepFrom(s, i + 1)

AfterSep(s) == SubSeq(s, SepFrom(s, 1) + 2, Len(s))

BeforeSep(s) == SubSeq(s, 1, SepFrom(s, 1) - 1)

UpToDot(s) == SubSeq(s, 1, IndexOf(s, ".") - 1)

Plain(s) == s # <<>> /\ \A i \in 1..Len(s) : s[i] \notin {":", "."}

\* NAMESPACE::field.index
IsIndexedName(s) ==
    /\ SepFrom(s, 1) # 0
    /\ Plain(BeforeSep(s))
    /\ IndexOf(AfterSep(s), ".") # 0
    /\ Plain(UpToDot(AfterSep(s)))

\* NAMESPACE::field
IsUnindexedName(s) ==
    /\ SepFrom(s, 1) # 0
    /\ Plain(BeforeSep(s))
    /\ Plain(AfterSep(s))

\* C8 as stated: NAMESPACE::field.index gives the text between '::' and the
\* first following '.', and NAMESPACE::field gives the whole text after '::'.
BriefNameOfEveryName ==
    NameDone =>
        /\ IsIndexedName(call.full_name)
              => outcome = Return(UpToDot(AfterSep(call.full_name)))
        /\ IsUnindexedName(call.full_name)
              => outcome = Return(AfterSep(call.full_name))

\* C8 as amended: a name with a '.' after its first '::' (NAMESPACE::field.index
\* among them) gives the text between that '::' and the first following '.';
\* a name with no '.' after '::' (NAMESPACE::field among them) or with no '::'
\* gives no value: the call fails with AttributeError.
BriefNameOnlyOfIndexedName ==
    NameDone =>
        LET s == call.full_name
        IN  /\ IF SepFrom(s, 1) # 0 /\ IndexOf(AfterSep(s), ".") # 0
               THEN outcome = Return(UpToDot(AfterSep(s)))
               ELSE outcome = Raise("AttributeError")
            /\ IsIndexedName(s) => outcome = Return(UpToDot(AfterSep(s)))
            /\ IsUnindexedName(s) => outcome = Raise("AttributeError")

\* an unindexed name has been refused
UnindexedNameWitness ==
    /\ NameDone
    /\ call.full_name = <<"a", ":", ":", "b">>
    /\ IsUnindexedName(call.full_name)
    /\ outcome = Raise("AttributeError")

(***************************************************************************)
(* fetch, get, get_next                                                    *)
(***************************************************************************)
\* a Python list and a Python dict (its items in insertion order)
PyList(elems) == [t |-> "list", elems |-> elems, items |-> <<>>]

PyDict(items) == [t |-> "dict", elems |-> <<>>, items |-> items]

\* d[key] = value: an existing key keeps its place
DictSet(items, key, value) ==
    Only({IF \E i \in 1..Len(d) : d[i][1] = key
          THEN [i \in 1..Len(d) |-> IF d[i][1] = key THEN <<key, value>> ELSE d[i]]
          ELSE Append(d, <<key, value>>) : d \in {items}})

DictHas(items, key) == \E i \in 1..Len(items) : items[i][1] = key

DictGet(items, key) ==
    items[CHOOSE i \in 1..Len(items) : items[i][1] = key][2]

\* bool(value)
Truthy(v) ==
    CASE v.t = "NoneType" -> FALSE
      [] v.t \in {"int", "bool"} -> v.n # 0
      [] v.t = "str" -> v.s # <<>>
      [] v.t = "float" -> v # PyFloat(0, 0)
      [] v.t = "obj" -> TRUE

\* one (error_indication, error_status, error_index, var_binds) of a handler;
\* var_binds is a sequence of <<full name, value>>
Response(error_indication, error_status, var_binds) ==
    [error_indication |-> error_indication, error_status |-> error_status,
     error_index |-> 0, var_binds |-> var_binds]

\* "if not error_indication" in place of
\* "if not error_indication and not error_status"
ErrorFreeIndicationOnly(response) == ~Truthy(response.error_indication)

\* not error_indication and not error_status
ErrorFree(response) ==
    ~Truthy(response.error_indication) /\ ~Truthy(response.error_status)

\* for var_bind in var_binds: items[str(var_bind[0].prettyPrint())] = ...
RECURSIVE VarBindsLoop(_, _)
VarBindsLoop(var_binds, items) ==
    IF var_binds = <<>> THEN Return(items)
    ELSE Only({IF Returned(value)
               THEN VarBindsLoop(Tail(var_binds),
                                 DictSet(items, Head(var_binds)[1], value.val))
               ELSE value : value \in {cast(Head(var_binds)[2])}})

\* for (error_indication, error_status, error_index, var_binds) in handler
RECURSIVE FetchLoop(_, _)
FetchLoop(handler, result) ==
    IF handler = <<>> THEN Return(PyList(result))
    ELSE IF ErrorFree(Head(handler))
         THEN Only({IF Returned(items)
                    THEN FetchLoop(Tail(handler),
                                   ListAppend(result, PyDict(items.val)))
                    ELSE items :
                        items \in {VarBindsLoop(Head(handler).var_binds, <<>>)}})
         ELSE Raise("RuntimeError")

\* SnmpQuery.fetch
fetch(handler) == FetchLoop(handler, <<>>)

\* SnmpQuery.get: handler is what hlapi.getCmd yields for the object types
get(target, oids, credentials, handler) ==
    Only({IF Returned(object_types) THEN fetch(handler) ELSE object_types :
             object_types \in {construct_object_types(oids)}})

\* SnmpQuery.get_next: handler is what hlapi.nextCmd yields
get_next(target, oids, credentials, handler) ==
    Only({IF Returned(object_types) THEN fetch(handler) ELSE object_types :
             object_types \in {construct_object_types(oids)}})

(***************************************************************************)
(* The names and values the engine answers with.                           *)
(***************************************************************************)
IfMib == <<"I", "F", "-", "M", "I", "B">>

IfIndexField == <<"i", "f", "I", "n", "d", "e", "x">>

IfNameField == <<"i", "f", "N", "a", "m", "e">>

SnmpV2Mib == <<"S", "N", "M", "P", "v", "2", "-", "M", "I", "B">>

SysNameField == <<"s", "y", "s", "N", "a", "m", "e">>

HostKey == <<"h", "o", "s", "t">>

Router1 == <<"r", "o", "u", "t", "e", "r", "1">>

Eth(n) == <<"e", "t", "h">> \o IntToStr(n)

\* prettyPrint() of a resolved object identity
PrettyPrint(mib, field, index) == mib \o <<":", ":">> \o field \o <<".">> \o index

IfIndexBind(i) == <<PrettyPrint(IfMib, IfIndexField, IntToStr(i)), PyInt(i)>>

IfNameBind(i) == <<PrettyPrint(IfMib, IfNameField, IntToStr(i)), PyStr(Eth(i))>>

SysNameOid == PrettyPrint(SnmpV2Mib, SysNameField, <<"0">>)

Timeout == PyStr(<<"t", "i", "m", "e", "o", "u", "t">>)

OkResponse(var_binds) == Response(PyNone, PyInt(0), var_binds)

IndicationResponse == Response(Timeout, PyInt(0), <<>>)

StatusResponse == Response(PyNone, PyInt(2), <<>>)

\* the rows a walk of ifIndex and ifName can answer with: full rows, a row of
\* one column, a row whose columns stand at different indexes, a row with
\* one column twice, and the two error responses
WalkResponses ==
    {OkResponse(<<IfIndexBind(1), IfNameBind(1)>>),
     OkResponse(<<IfIndexBind(2), IfNameBind(2)>>),
     OkResponse(<<IfIndexBind(3)>>),
     OkResponse(<<IfNameBind(1)>>),
     OkResponse(<<IfIndexBind(1), IfNameBind(2)>>),
     OkResponse(<<IfIndexBind(1), IfIndexBind(2)>>),
     IndicationResponse, StatusResponse}

MaxResponses == 2

WalkHandlers == ListsUpTo(WalkResponses, MaxResponses)

\* the symbols get_snmp_interfaces walks (the first two of its eighteen) and
\* the one get_snmp_name gets
InterfaceOids ==
    <<OidDict(<<<<IfMib, IfIndexField>>>>), OidDict(<<<<IfMib, IfNameField>>>>)>>

SysNameOids == <<OidDict(<<<<SnmpV2Mib, SysNameField \o <<".", "0">>>>>>)>>

Community == <<"p", "u", "b">>

InitFetch ==
    /\ call \in {[op |-> o, target |-> t, oids |-> ids, handler |-> h] :
                    o \in {"fetch", "get", "get_next"}, t \in Hosts,
                    ids \in {InterfaceOids, SysNameOids}, h \in WalkHandlers}
    /\ outcome = NoOutcome
    /\ InitQuiet

Fetch ==
    /\ call.op = "fetch"
    /\ outcome = NoOutcome
    /\ outcome' = fetch(call.handler)
    /\ UNCHANGED <<call, engines, frames>>

Get ==
    /\ call.op = "get"
    /\ outcome = NoOutcome
    /\ outcome' = get(call.target, call.oids, CommunityData(Community),
                      call.handler)
    /\ UNCHANGED <<call, engines, frames>>

GetNext ==
    /\ call.op = "get_next"
    /\ outcome = NoOutcome
    /\ outcome' = get_next(call.target, call.oids, CommunityData(Community),
                           call.handler)
    /\ UNCHANGED <<call, engines, frames>>

NextFetch == Fetch \/ Get \/ GetNext

SpecFetch == InitFetch /\ [][NextFetch]_vars

FetchDone == call.op \in {"fetch", "get", "get_next"} /\ outcome # NoOutcome

HasError(response) ==
    response.error_indication # PyNone \/ response.error_status # PyInt(0)

\* C5: if any response of the handler carries an error indication or an
\* error status, fetch raises RuntimeError and the caller receives no record;
\* the records are returned only when every response is error-free.
FetchAllOrNothing ==
    FetchDone =>
        LET h == call.handler
        IN  /\ (\E i \in 1..Len(h) : HasError(h[i]))
                  => outcome = Raise("RuntimeError")
            /\ (\A i \in 1..Len(h) : ~HasError(h[i]))
                  => /\ Returned(outcome)
                     /\ outcome.val.t = "list"
                     /\ Len(outcome.val.elems) = Len(h)

\* an error status after an error-free response has discarded its record
FetchDiscardsWitness ==
    /\ FetchDone
    /\ call.op = "get_next"
    /\ call.handler = <<OkResponse(<<IfIndexBind(3)>>), StatusResponse>>
    /\ outcome = Raise("RuntimeError")

(***************************************************************************)
(* SnmpUtility: get_snmp_name, get_snmp_interfaces                         *)
(***************************************************************************)
\* SnmpUtility.__init__
SnmpUtility(host, community_string) ==
    [host |-> host, community_string |-> community_string]

\* "return host_name" in place of "return host_name[0][...]"
get_snmp_name_whole(self, handler) ==
    get(self.host, SysNameOids, CommunityData(self.community_string), handler)

\* host_name[0]['SNMPv2-MIB::sysName.0']
FirstSysName(host_name) ==
    IF host_name.elems = <<>> THEN Raise("IndexError")
    ELSE IF ~DictHas(host_name.elems[1].items, SysNameOid) THEN Raise("KeyError")
    ELSE Return(DictGet(host_name.elems[1].items, SysNameOid))

\* SnmpUtility.get_snmp_name: handler is what the engine answers to the get
get_snmp_name(self, handler) ==
    Only({IF ~Returned(credentials) THEN credentials
          ELSE Only({IF Returned(host_name) THEN FirstSysName(host_name.val)
                     ELSE host_name :
                         host_name \in {get(self.host, SysNameOids,
                                            credentials.val, handler)}}) :
             credentials \in {construct_credentials(PyBool(FALSE),
                                                    self.community_string)}})

\* the fields of the entry before are kept, in place of "fields = {}"
StaleFields(fields) == fields

\* fields = {}
BlankFields(fields) == <<>>

\* for key, value in interface_entry.items(): fields[get_brief_name(key)] = value
RECURSIVE EntryLoop(_, _)
EntryLoop(items, fields) ==
    IF items = <<>> THEN Return(fields)
    ELSE Only({IF Returned(brief)
               THEN EntryLoop(Tail(items),
                              DictSet(fields, brief.val, Head(items)[2]))
               ELSE brief : brief \in {get_brief_name(Head(items)[1])}})

\* for interface_entry in interface_entries: name_handlers[1] is what the
\* engine answers to this entry's get_snmp_name
RECURSIVE InterfacesLoop(_, _, _, _, _)
InterfacesLoop(self, interface_entries, name_handlers, last_fields, interface_stat_list) ==
    IF interface_entries = <<>> THEN Return(PyList(interface_stat_list))
    ELSE Only({IF ~Returned(name) THEN name
               ELSE Only({IF Returned(fields)
                          THEN InterfacesLoop(self, Tail(interface_entries),
                                              Tail(name_handlers), fields.val,
                                              ListAppend(interface_stat_list,
                                                         PyDict(fields.val)))
                          ELSE fields :
                              fields \in {EntryLoop(Head(interface_entries).items,
                                                    DictSet(BlankFields(last_fields),
                                                            HostKey, name.val))}}) :
                  name \in {get_snmp_name(self, Head(name_handlers))}})

\* SnmpUtility.get_snmp_interfaces: handler is what the engine answers to the
\* walk
get_snmp_interfaces(self, handler, name_handlers) ==
    Only({IF ~Returned(credentials) THEN credentials
          ELSE Only({IF Returned(interface_entries)
                     THEN InterfacesLoop(self, interface_entries.val.elems,
                                         name_handlers, <<>>, <<>>)
                     ELSE interface_entries :
                         interface_entries \in {get_next(self.host, InterfaceOids,
                                                         credentials.val, handler)}}) :
             credentials \in {construct_credentials(PyBool(FALSE),
                                                    self.community_string)}})

SysNameBind(name) == <<SysNameOid, PyStr(name)>>

\* what the engine can answer to the get of sysName.0
NameHandlers ==
    {<<OkResponse(<<SysNameBind(Router1)>>)>>, <<IndicationResponse>>, <<>>}

InitFacade ==
    /\ call \in
          {[op |-> "get_snmp_interfaces", host |-> t, handler |-> h,
            name_handlers |-> n] :
              t \in Hosts, h \in WalkHandlers,
              n \in [1..MaxResponses -> NameHandlers]}
            \cup
          {[op |-> "get_snmp_name", host |-> t, handler |-> h,
            name_handlers |-> <<>>] :
              t \in Hosts,
              h \in NameHandlers \cup {<<OkResponse(<<IfIndexBind(3)>>)>>}}
    /\ outcome = NoOutcome
    /\ InitQuiet

GetSnmpInterfaces ==
    /\ call.op = "get_snmp_interfaces"
    /\ outcome = NoOutcome
    /\ outcome' = get_snmp_interfaces(SnmpUtility(call.host, Community),
                                      call.handler, call.name_handlers)
    /\ UNCHANGED <<call, engines, frames>>

GetSnmpName ==
    /\ call.op = "get_snmp_name"
    /\ outcome = NoOutcome
    /\ outcome' = get_snmp_name(SnmpUtility(call.host, Community), call.handler)
    /\ UNCHANGED <<call, engines, frames>>

NextFacade == GetSnmpInterfaces \/ GetSnmpName

SpecFacade == InitFacade /\ [][NextFacade]_vars

InterfacesReturned ==
    call.op = "get_snmp_interfaces" /\ outcome # NoOutcome /\ Returned(outcome)

NameDoneFor(handler) ==
    call.op = "get_snmp_name" /\ outcome # NoOutcome /\ call.handler = handler

\* the raw bindings of a handler, in the order the engine returned them
RECURSIVE Bindings(_)
Bindings(handler) ==
    IF handler = <<>> THEN <<>>
    ELSE Head(handler).var_binds \o Bindings(Tail(handler))

\* the instance index of a full name: the text after the first '.' after '::'
InstanceIndex(full_name) ==
    LET rest == AfterSep(full_name)
    IN  SubSeq(rest, IndexOf(rest, ".") + 1, Len(rest))

BriefOf(binding) == UpToDot(AfterSep(binding[1]))

CoercedOf(binding) == cast(binding[2]).val

\* the distinct instance indexes of a sequence of bindings, first seen first
RECURSIVE FirstSeen(_, _)
FirstSeen(bindings, seen) ==
    IF bindings = <<>> THEN seen
    ELSE LET index == InstanceIndex(Head(bindings)[1])
         IN  FirstSeen(Tail(bindings),
                       IF \E k \in 1..Len(seen) : seen[k] = index THEN seen
                       ELSE Append(seen, index))

\* the (field, value) pairs of a Record, the injected host field apart
FieldsOf(record) ==
    {record.items[j] : j \in {i \in 1..Len(record.items) :
                                record.items[i][1] # HostKey}}

KeysOf(record) == {record.items[j][1] : j \in 1..Len(record.items)}

BindingSet(bindings) == {bindings[j] : j \in 1..Len(bindings)}

\* C6 as stated: the Records of the interface-table query are the bindings
\* grouped by instance index: one Record per distinct index, in first-seen
\* order, each holding exactly the bindings that carry its index.
RecordsGroupedByIndex ==
    InterfacesReturned =>
        LET bindings == Bindings(call.handler)
            indexes == FirstSeen(bindings, <<>>)
            records == outcome.val.elems
        IN  /\ Len(records) = Len(indexes)
            /\ \A k \in 1..Len(indexes) :
                  FieldsOf(records[k]) =
                      {<<BriefOf(b), CoercedOf(b)>> :
                          b \in {c \in BindingSet(bindings) :
                                   InstanceIndex(c[1]) = indexes[k]}}

\* C6 as amended: there is one Record per response of the walk, in response
\* order; the Record of a response holds, besides host, exactly the brief
\* names of that response's bindings, each with the coerced value of one of
\* those bindings, whatever instance indexes they carry.
RecordsPerResponse ==
    InterfacesReturned =>
        LET records == outcome.val.elems
        IN  /\ Len(records) = Len(call.handler)
            /\ \A k \in 1..Len(call.handler) :
                  LET binds == BindingSet(call.handler[k].var_binds)
                  IN  /\ records[k].t = "dict"
                      /\ KeysOf(records[k]) =
                            {HostKey} \cup {BriefOf(b) : b \in binds}
                      /\ FieldsOf(records[k]) \subseteq
                            {<<BriefOf(b), CoercedOf(b)>> : b \in binds}
                      /\ Cardinality({BriefOf(b) : b \in binds})
                              = Len(call.handler[k].var_binds)
                            => FieldsOf(records[k]) =
                                 {<<BriefOf(b), CoercedOf(b)>> : b \in binds}

\* a response whose two columns stand at different indexes has given one
\* Record, after a response of index 1 that has given another
MixedIndexesWitness ==
    /\ InterfacesReturned
    /\ call.handler = <<OkResponse(<<IfIndexBind(1), IfNameBind(1)>>),
                        OkResponse(<<IfIndexBind(1), IfNameBind(2)>>)>>
    /\ outcome.val.elems[2] =
          PyDict(<<<<HostKey, PyStr(Router1)>>, <<IfIndexField, PyInt(1)>>,
                   <<IfNameField, PyStr(Eth(2))>>>>)

SingleIndex(handler) ==
    /\ Bindings(handler) # <<>>
    /\ Len(FirstSeen(Bindings(handler), <<>>)) = 1

NameAnswer == <<OkResponse(<<SysNameBind(Router1)>>)>>

\* C7 as stated: a result of exactly one Record is handed over bare: the
\* device-name query gives the value "router1", and a table query whose
\* response has a single instance index gives the Record, not a list.
SingleRecordIsBare ==
    /\ NameDoneFor(NameAnswer) => outcome = Return(PyStr(Router1))
    /\ (InterfacesReturned /\ SingleIndex(call.handler))
          => outcome.val.t = "dict"

\* C7 as amended: only the device-name query gives a bare value ("router1");
\* the table query always gives a list, of one Record when the response has a
\* single instance index: IF-MIB::ifIndex.3 -> 3 gives [{host, ifIndex: 3}].
OnlyNameIsBare ==
    /\ NameDoneFor(NameAnswer) => outcome = Return(PyStr(Router1))
    /\ InterfacesReturned => outcome.val.t = "list"
    /\ (InterfacesReturned /\ call.handler = <<OkResponse(<<IfIndexBind(3)>>)>>)
          => outcome.val =
               PyList(<<PyDict(<<<<HostKey, PyStr(Router1)>>,
                                 <<IfIndexField, PyInt(3)>>>>)>>)

\* the table query has answered a single-index response with a list
OneElementListWitness ==
    /\ InterfacesReturned
    /\ call.handler = <<OkResponse(<<IfIndexBind(3)>>)>>
    /\ SingleIndex(call.handler)
    /\ outcome.val.t = "list"
    /\ Len(outcome.val.elems) = 1

(***************************************************************************)
(* Interleaved get / get_next calls of the instances of several devices.   *)
(* SnmpUtility passes three arguments (target, oids, credentials), so every *)
(* call runs with the default engine and context of the method called.     *)
(***************************************************************************)
MaxExchanges == 2

MaxRequests == 3

\* the frame of a call of fn by the instance of host h: its engine and
\* context parameters are bound to the defaults of fn
Enter(h, fn, n) ==
    /\ frames[h].pc = "idle"
    /\ frames' = [frames EXCEPT ![h] =
                    [pc |-> "running", fn |-> fn,
                     engine |-> DefaultArg(fn, "engine"),
                     context |-> DefaultArg(fn, "context"), left |-> n]]
    /\ engines' = [o \in DefaultObjects |->
                     IF o \in {DefaultArg(fn, "engine"), DefaultArg(fn, "context")}
                     THEN [engines[o] EXCEPT !.usedBy = @ \cup {h}]
                     ELSE engines[o]]
    /\ UNCHANGED <<call, outcome>>

EnterGet(h) == \E n \in 0..MaxExchanges : Enter(h, "get", n)

EnterGetNext(h) == \E n \in 0..MaxExchanges : Enter(h, "get_next", n)

\* one iteration of the handler: the engine of the frame sends a request and
\* dispatches the response, which changes the engine
Exchange(h) ==
    /\ frames[h].pc = "running"
    /\ frames[h].left > 0
    /\ engines[frames[h].engine].requests < MaxRequests
    /\ engines' = [engines EXCEPT ![frames[h].engine].requests = @ + 1]
    /\ frames' = [frames EXCEPT ![h].left = @ - 1]
    /\ UNCHANGED <<call, outcome>>

\* fetch returns, or raises on an error response
Leave(h) ==
    /\ frames[h].pc = "running"
    /\ frames' = [frames EXCEPT ![h] = IdleFrame]
    /\ UNCHANGED <<call, outcome, engines>>

InitShare == call = NoCall /\ outcome = NoOutcome /\ InitQuiet

NextShare ==
    \E h \in Hosts : EnterGet(h) \/ EnterGetNext(h) \/ Exchange(h) \/ Leave(h)

SpecShare == InitShare /\ [][NextShare]_vars

ReachedBy(h) == {o \in DefaultObjects : h \in engines[o].usedBy}

\* C9: the pipelines of different devices share no mutable state: no object
\* that a call of one instance runs with (its engine and context among them)
\* is reachable from a call of another instance.
PipelinesShareNothing ==
    \A a \in Hosts : \A b \in Hosts \ {a} : ReachedBy(a) \cap ReachedBy(b) = {}

====
